---- MODULE Spec2Model ----
(***************************************************************************)
(* Camera simulator: the recording-schedule generator (patterns.py), the   *)
(* artifact naming and the retention pass of the per-camera loop           *)
(* (camera.py), and the coordinator with the threads of its cameras        *)
(* (simulator.py, camera.py).                                              *)
(*                                                                         *)
(* Time.  A datetime is an integer number of ticks, the resolution of      *)
(* datetime/timedelta.  A duration in minutes is a float, finer than a     *)
(* tick: it is an integer number of grains, Sub grains to the tick.        *)
(* timedelta(minutes=d) rounds d to the nearest tick (half to even), and   *)
(* (a - b).total_seconds() / 60 turns ticks back into grains.              *)
(***************************************************************************)
EXTENDS Integers, Sequences, FiniteSets, TLC

VARIABLES
    \* create_pattern(pattern_type, config, start_time, end_time)
    pattern_type, config, start_time, end_time,
    \* where the call is: "create", a generator's loop, or "done"
    pc,
    \* locals of _generate_motion / _generate_event / _generate_random
    current_time, events,
    \* the activation of _generate_continuous: its locals and who called it
    cont,
    \* history: the blocks _generate_random has cut, in order
    blocks,
    \* what create_pattern returned, whether an exception left it, and
    \* history: whether its except clause ran
    result, raised, fault,
    \* CameraSimulator: self.name, self.config, self.output_folder
    name, cam_config, output_folder,
    \* the event one pass of the loop of run() works on (its start_time), and
    \* where that pass is: "render", "rendered", "produce" or "raised"
    event_start, npc,
    \* locals of run(): vars, filename, subdir, output_path
    tvars, filename, subdir, output_path,
    \* history: the except KeyError clause ran; an exception left run()
    fallback, run_raised,
    \* self.global_config, and the files under self.output_folder
    global_config, files,
    \* where _cleanup_old_files is: "cleanup" or "cleaned"
    rpc,
    \* local of _cleanup_old_files: to_delete; history: the files before the
    \* call, and the files whose os.remove raised
    to_delete, files_before, remove_failed,
    \* Simulator: self.config['simulator'], the camera entries of the
    \* configuration, the argument of start(), and datetime.now()
    sim_config, cameras, arg_start_time, clock,
    \* where start() or stop() is, and the camera its current loop is at
    sim_pc, sim_i,
    \* self.running, self.threads, and the locals start_time and duration
    running, threads, sim_start_time, run_duration,
    \* per camera: self.events, and history: the end_time generate_schedule
    \* computed
    cam_events, window_end,
    \* per camera: self.stop_flag, self.stats
    stop_flag, stats,
    \* per camera: where its thread is in run(), and the index of the event
    \* the loop of run() is at
    run_pc, run_i,
    \* per camera: the files under its output folder
    artifacts,
    \* history, per camera: what happened to it, in order
    log,
    \* history: KeyboardInterrupt was raised; the threads whose join timed out
    interrupted, timed_out

synthVars == <<pattern_type, config, start_time, end_time, pc, current_time,
               events, cont, blocks, result, raised, fault>>

namerVars == <<name, cam_config, output_folder, event_start, npc, tvars,
               filename, subdir, output_path, fallback, run_raised>>

retentionVars == <<global_config, files, rpc, to_delete, files_before,
                   remove_failed>>

simVars == <<sim_config, cameras, arg_start_time, clock, sim_pc, sim_i, running,
             threads, sim_start_time, run_duration, cam_events, window_end,
             stop_flag, stats, run_pc, run_i, artifacts, log, interrupted,
             timed_out>>

vars == <<synthVars, namerVars, retentionVars, simVars>>

----------------------------------------------------------------------------
(* Resolution of the model's clock *)

\* grains (float resolution) per tick (datetime resolution)
Sub == 2
\* ticks per minute
TicksPerMinute == 20
\* most events one schedule may hold before the model stops extending it
MaxEvents == 5

Minute == TicksPerMinute * Sub

\* timedelta(minutes=d): d grains as ticks, rounded half to even
TimeDelta(d) ==
    LET q == d \div Sub
        r == d % Sub
    IN  IF 2 * r < Sub THEN q
        ELSE IF 2 * r > Sub THEN q + 1
        ELSE IF q % 2 = 0 THEN q ELSE q + 1

\* faulty variant: total_seconds() taken for minutes, the division by 60 forgotten
TotalSecondsAsMinutes(ticks) == ticks * Sub * 60

\* (a - b).total_seconds() / 60: ticks as grains
TotalMinutes(ticks) == ticks * Sub

\* duration < 0.1 and duration > 0.1, durations in grains
BelowTenth(d) == 10 * d < Minute
AboveTenth(d) == 10 * d > Minute

----------------------------------------------------------------------------
(* patterns.py *)

PatternType == {"continuous", "motion_triggered", "event_triggered", "random_on_off"}

\* a value of config[...]: missing, not a two-element list of numbers, or [lo, hi]
Absent == [kind |-> "absent", lo |-> 0, hi |-> 0]
Malformed == [kind |-> "malformed", lo |-> 0, hi |-> 0]
Range(lo, hi) == [kind |-> "range", lo |-> lo, hi |-> hi]

\* config.get(key, default)
ConfigGet(value, default) == IF value.kind = "absent" THEN default ELSE value

DefaultContinuousVideo == Range(15 * Minute, 15 * Minute)
DefaultMotionVideo == Range(5 * Minute, 20 * Minute)
DefaultMotionIdle == Range(10 * Minute, 30 * Minute)
DefaultEventVideo == Range(3 * Minute, 10 * Minute)
DefaultEventIdle == Range(20 * Minute, 60 * Minute)
BlockRange == Range(60 * Minute, 240 * Minute)

\* random.uniform(a, b): any float of [a, b]; the model draws the two ends
\* and the middle
Uniform(range) == {range.lo, range.hi, (range.lo + range.hi) \div 2}

RecordingEvent(start, duration, wasTruncated) ==
    [start_time |-> start, duration_minutes |-> duration, filename |-> "",
     \* history: the duration was cut at end_time (lines 57, 90, 121)
     truncated |-> wasTruncated]

\* the schedule emitted so far, across the frames of the call
Emitted ==
    IF pc = "done" THEN result
    ELSE IF pc = "continuous" /\ cont.caller = "_generate_random"
         THEN events \o cont.events
    ELSE IF pc = "continuous" THEN cont.events
    ELSE events

NoFrame == [current_time |-> 0, end_time |-> 0, events |-> <<>>, caller |-> "none"]

\* line 58: if duration < 0.1: break
TooShort(duration) == BelowTenth(duration)

\* lines 92, 123: if duration > 0.1: events.append(...)
LongEnough(duration) == AboveTenth(duration)

\* faulty variant: an unknown kind is sent to the motion generator
GeneratorUnknownToMotion(kind) ==
    CASE kind = "continuous" -> "continuous"
      [] kind = "motion_triggered" -> "motion"
      [] kind = "event_triggered" -> "event"
      [] kind = "random_on_off" -> "random"
      [] OTHER -> "motion"

\* lines 30-40: which generator create_pattern calls
Generator(kind) ==
    CASE kind = "continuous" -> "continuous"
      [] kind = "motion_triggered" -> "motion"
      [] kind = "event_triggered" -> "event"
      [] kind = "random_on_off" -> "random"
      [] OTHER -> "continuous"

\* faulty variant: the except clause logs and re-raises
ExceptClauseReraise == [result |-> <<>>, raised |-> TRUE]

\* lines 41-43: except Exception: log, return []
ExceptClause == [result |-> <<>>, raised |-> FALSE]

\* an exception raised inside the try block of create_pattern
Throw ==
    /\ result' = ExceptClause.result
    /\ raised' = ExceptClause.raised
    /\ fault' = TRUE
    /\ pc' = "done"
    /\ UNCHANGED <<pattern_type, config, start_time, end_time, current_time,
                   events, cont, blocks>>

\* create_pattern returns the generator's list
Return(list) ==
    /\ result' = list
    /\ pc' = "done"
    /\ UNCHANGED <<pattern_type, config, start_time, end_time, current_time,
                   events, cont, blocks, raised, fault>>

\* lines 27-40: the dispatch, and the callee's first lines
CreatePattern ==
    /\ pc = "create"
    /\ pc' = Generator(pattern_type)
    /\ IF Generator(pattern_type) = "continuous"
       THEN /\ cont' = [current_time |-> start_time, end_time |-> end_time,
                        events |-> <<>>, caller |-> "create_pattern"]
            /\ UNCHANGED <<current_time, events>>
       ELSE /\ current_time' = start_time
            /\ events' = <<>>
            /\ UNCHANGED cont
    /\ UNCHANGED <<pattern_type, config, start_time, end_time, blocks, result,
                   raised, fault>>

\* faulty variant: the check against end_time (lines 56-59) is missing
ContinuousBodyNoClamp(f, d) ==
    [frame |-> [f EXCEPT
         !.events = Append(@, RecordingEvent(f.current_time, d, FALSE)),
         !.current_time = @ + TimeDelta(d)],
     break |-> FALSE]

\* lines 53-67: one pass of the loop body of _generate_continuous, for the
\* sampled duration d: the frame after it, or the frame marked as left by break
ContinuousBody(f, d) ==
    LET crosses == f.current_time + TimeDelta(d) > f.end_time
        duration == IF crosses
                    THEN TotalMinutes(f.end_time - f.current_time)
                    ELSE d
    IN  IF crosses /\ TooShort(duration)
        THEN [frame |-> f, break |-> TRUE]
        ELSE [frame |-> [f EXCEPT
                  !.events = Append(@, RecordingEvent(f.current_time, duration, crosses)),
                  !.current_time = @ + TimeDelta(duration)],
              break |-> FALSE]

\* line 69 and the caller's next lines: return events
ContinuousReturn(list) ==
    IF cont.caller = "_generate_random"
    THEN \* lines 148-151
         /\ events' = events \o list
         /\ current_time' = cont.end_time
         /\ cont' = NoFrame
         /\ pc' = "random"
         /\ UNCHANGED <<pattern_type, config, start_time, end_time, blocks,
                        result, raised, fault>>
    ELSE /\ cont' = NoFrame
         /\ result' = list
         /\ pc' = "done"
         /\ UNCHANGED <<pattern_type, config, start_time, end_time,
                        current_time, events, blocks, raised, fault>>

\* lines 45-69: _generate_continuous, one loop test and pass
GenerateContinuous ==
    /\ pc = "continuous"
    /\ LET duration_range == ConfigGet(config.video_duration_range, DefaultContinuousVideo)
       IN  IF ~(cont.current_time < cont.end_time)
           THEN ContinuousReturn(cont.events)
           ELSE IF duration_range.kind = "malformed"
           THEN Throw
           ELSE \E d \in Uniform(duration_range) :
                  LET after == ContinuousBody(cont, d)
                  IN  IF after.break
                      THEN ContinuousReturn(cont.events)
                      ELSE /\ Len(Emitted) < MaxEvents
                           /\ cont' = after.frame
                           /\ UNCHANGED <<pattern_type, config, start_time,
                                          end_time, pc, current_time, events,
                                          blocks, result, raised, fault>>

\* faulty variant: line 99 is missing, the cursor does not move past the recording
MotionBodyNoAdvance(cur, evs, idle, d) ==
    LET afterIdle == cur + TimeDelta(idle)
        crosses == afterIdle + TimeDelta(d) > end_time
        duration == IF crosses THEN TotalMinutes(end_time - afterIdle) ELSE d
    IN  IF afterIdle >= end_time
        THEN [current_time |-> afterIdle, events |-> evs, break |-> TRUE]
        ELSE [current_time |-> afterIdle,
              events |-> IF AboveTenth(duration)
                         THEN Append(evs, RecordingEvent(afterIdle, duration, crosses))
                         ELSE evs,
              break |-> FALSE]

\* lines 80-99: one pass of the loop body of _generate_motion for the sampled
\* idle gap and duration d (d is drawn only when the pass gets to line 87)
MotionBody(cur, evs, idle, d) ==
    LET afterIdle == cur + TimeDelta(idle)
        crosses == afterIdle + TimeDelta(d) > end_time
        duration == IF crosses THEN TotalMinutes(end_time - afterIdle) ELSE d
    IN  IF afterIdle >= end_time
        THEN [current_time |-> afterIdle, events |-> evs, break |-> TRUE]
        ELSE [current_time |-> afterIdle + TimeDelta(duration),
              events |-> IF LongEnough(duration)
                         THEN Append(evs, RecordingEvent(afterIdle, duration, crosses))
                         ELSE evs,
              break |-> FALSE]

\* faulty variant: the pass of _generate_event records at once, without the
\* idle gap
EventBodyNoIdle(cur, evs, idle, d) == MotionBody(cur, evs, 0, d)

\* lines 112-130: the same pass in _generate_event
EventBody(cur, evs, idle, d) ==
    LET afterIdle == cur + TimeDelta(idle)
        crosses == afterIdle + TimeDelta(d) > end_time
        duration == IF crosses THEN TotalMinutes(end_time - afterIdle) ELSE d
    IN  IF afterIdle >= end_time
        THEN [current_time |-> afterIdle, events |-> evs, break |-> TRUE]
        ELSE [current_time |-> afterIdle + TimeDelta(duration),
              events |-> IF LongEnough(duration)
                         THEN Append(evs, RecordingEvent(afterIdle, duration, crosses))
                         ELSE evs,
              break |-> FALSE]

\* lines 71-101: _generate_motion, one loop test and pass
GenerateMotion ==
    /\ pc = "motion"
    /\ LET video_range == ConfigGet(config.video_duration_range, DefaultMotionVideo)
           idle_range == ConfigGet(config.idle_duration_range, DefaultMotionIdle)
       IN  IF ~(current_time < end_time)
           THEN Return(events)
           ELSE IF idle_range.kind = "malformed"
           THEN Throw
           ELSE \E idle \in Uniform(idle_range) :
                  IF current_time + TimeDelta(idle) >= end_time
                  THEN Return(events)
                  ELSE IF video_range.kind = "malformed"
                  THEN Throw
                  ELSE \E d \in Uniform(video_range) :
                         LET after == MotionBody(current_time, events, idle, d)
                         IN  /\ Len(after.events) <= MaxEvents
                             /\ current_time' = after.current_time
                             /\ events' = after.events
                             /\ UNCHANGED <<pattern_type, config, start_time,
                                            end_time, pc, cont, blocks, result,
                                            raised, fault>>

\* lines 103-132: _generate_event, one loop test and pass
GenerateEvent ==
    /\ pc = "event"
    /\ LET video_range == ConfigGet(config.video_duration_range, DefaultEventVideo)
           idle_range == ConfigGet(config.idle_duration_range, DefaultEventIdle)
       IN  IF ~(current_time < end_time)
           THEN Return(events)
           ELSE IF idle_range.kind = "malformed"
           THEN Throw
           ELSE \E idle \in Uniform(idle_range) :
                  IF current_time + TimeDelta(idle) >= end_time
                  THEN Return(events)
                  ELSE IF video_range.kind = "malformed"
                  THEN Throw
                  ELSE \E d \in Uniform(video_range) :
                         LET after == EventBody(current_time, events, idle, d)
                         IN  /\ Len(after.events) <= MaxEvents
                             /\ current_time' = after.current_time
                             /\ events' = after.events
                             /\ UNCHANGED <<pattern_type, config, start_time,
                                            end_time, pc, cont, blocks, result,
                                            raised, fault>>

\* faulty variant: the min(..., end_time) of line 144 is missing
BlockEndNoMin(cur, period_duration) == cur + TimeDelta(period_duration)

\* line 144: block_end = min(current_time + timedelta(minutes=period_duration), end_time)
BlockEnd(cur, period_duration) ==
    IF cur + TimeDelta(period_duration) < end_time
    THEN cur + TimeDelta(period_duration)
    ELSE end_time

\* lines 134-153: _generate_random, one loop test and the cut of one block;
\* an "on" block is then filled by _generate_continuous
GenerateRandom ==
    /\ pc = "random"
    /\ IF ~(current_time < end_time)
       THEN Return(events)
       ELSE \E is_on \in BOOLEAN, period_duration \in Uniform(BlockRange) :
              LET block_end == BlockEnd(current_time, period_duration)
              IN  /\ blocks' = Append(blocks, [start |-> current_time,
                                               end |-> block_end, is_on |-> is_on])
                  /\ IF is_on
                     THEN /\ cont' = [current_time |-> current_time,
                                      end_time |-> block_end, events |-> <<>>,
                                      caller |-> "_generate_random"]
                          /\ pc' = "continuous"
                          /\ UNCHANGED current_time
                     ELSE /\ current_time' = block_end
                          /\ UNCHANGED <<cont, pc>>
                  /\ UNCHANGED <<pattern_type, config, start_time, end_time,
                                 events, result, raised, fault>>

----------------------------------------------------------------------------
(* camera.py, lines 83-139: the artifact's name and path *)

\* text as a sequence of characters, and back to a string
RECURSIVE Join(_)
Join(chars) == IF chars = <<>> THEN "" ELSE Head(chars) \o Join(Tail(chars))

\* str.isdigit, on the ASCII characters the names are made of
IsDigit(c) == c \in {"0", "1", "2", "3", "4", "5", "6", "7", "8", "9"}

DigitValue(c) ==
    CASE c = "0" -> 0 [] c = "1" -> 1 [] c = "2" -> 2 [] c = "3" -> 3
      [] c = "4" -> 4 [] c = "5" -> 5 [] c = "6" -> 6 [] c = "7" -> 7
      [] c = "8" -> 8 [] c = "9" -> 9

\* int(text), text a sequence of digits
RECURSIVE ParseInt(_)
ParseInt(digits) ==
    IF digits = <<>> THEN 0
    ELSE 10 * ParseInt(SubSeq(digits, 1, Len(digits) - 1)) + DigitValue(digits[Len(digits)])

\* f"{n:02d}", and the two-digit fields %m %d %H %M %S of strftime
Pad2(n) == IF n < 10 THEN "0" \o ToString(n) ELSE ToString(n)

\* lines 88-89: channel_id
ChannelId(camera) ==
    LET digits == SelectSeq(camera, IsDigit)
        channel_id == IF digits = <<>> THEN <<"0", "1">> ELSE digits
    IN  Pad2(ParseInt(channel_id))

\* now.strftime("%Y%m%d"), "%H%M%S", "%Y%m%d_%H%M%S", "%Y-%m-%d", "%H.%M.%S"
StrfDate(now) == ToString(now.year) \o Pad2(now.month) \o Pad2(now.day)
StrfTime(now) == Pad2(now.hour) \o Pad2(now.minute) \o Pad2(now.second)
StrfTimestamp(now) == StrfDate(now) \o "_" \o StrfTime(now)
StrfDateDashed(now) ==
    ToString(now.year) \o "-" \o Pad2(now.month) \o "-" \o Pad2(now.day)
StrfTimeDotted(now) ==
    Pad2(now.hour) \o "." \o Pad2(now.minute) \o "." \o Pad2(now.second)

\* lines 91-98: vars
Vars(camera, now) ==
    [name |-> Join(camera),
     channel |-> ChannelId(camera),
     date |-> StrfDate(now),
     time |-> StrfTime(now),
     timestamp |-> StrfTimestamp(now),
     type |-> "Main"]

\* faulty variant: the dahua branch is missing
ProfileVarsNoDahua(v, profile, now) ==
    IF profile = "imou" \/ profile = "tapo"
    THEN [v EXCEPT !.date = StrfDate(now)]
    ELSE v

\* lines 112-117: the profile's date and time formats
ProfileVars(v, profile, now) ==
    IF profile = "dahua"
    THEN [v EXCEPT !.date = StrfDateDashed(now), !.time = StrfTimeDotted(now)]
    ELSE IF profile = "imou" \/ profile = "tapo"
    THEN [v EXCEPT !.date = StrfDate(now)]
    ELSE v

\* a template string is its literal pieces and replacement fields in order:
\* text, {key}, and the positional {} / {0}
Lit(text) == [kind |-> "lit", text |-> text]
Field(key) == [kind |-> "field", text |-> key]
Positional == [kind |-> "index", text |-> ""]

\* template.format(**v): the text, or the exception of the first replacement
\* field that cannot be looked up (a missing key is a KeyError, a positional
\* field an IndexError, as format is given no positional argument)
RECURSIVE Format(_, _)
Format(template, v) ==
    IF template = <<>> THEN [error |-> "none", text |-> ""]
    ELSE LET t == Head(template)
         IN  IF t.kind = "index" THEN [error |-> "IndexError", text |-> ""]
             ELSE IF t.kind = "field" /\ t.text \notin DOMAIN v
             THEN [error |-> "KeyError", text |-> ""]
             ELSE LET rest == Format(Tail(template), v)
                  IN  IF rest.error # "none" THEN rest
                      ELSE [error |-> "none",
                            text |-> (IF t.kind = "lit" THEN t.text ELSE v[t.text])
                                         \o rest.text]

\* a key of a config dict: missing, or present with a value
NoKey == [present |-> FALSE, value |-> <<>>]
NoText == [present |-> FALSE, value |-> ""]
NoFlag == [present |-> FALSE, value |-> FALSE]
NoCount == [present |-> FALSE, value |-> 0]
Key(value) == [present |-> TRUE, value |-> value]

\* self.config.get(key, default)
Get(entry, default) == IF entry.present THEN entry.value ELSE default

DefaultNamingTemplate == <<Field("name"), Lit("_"), Field("timestamp"), Lit(".mp4")>>
DefaultDirectoryStructure == <<>>

\* lines 121-124: except KeyError
FallbackName(camera, v) == Join(camera) \o "_" \o v.timestamp \o ".mp4"

\* lines 83-124: the names of one event's artifact, or the exception that
\* leaves the try block uncaught
Render(camera, cfg, now) ==
    LET template == Get(cfg.naming_template, DefaultNamingTemplate)
        dir_template == Get(cfg.directory_structure, DefaultDirectoryStructure)
        v == ProfileVars(Vars(camera, now), Get(cfg.profile, "generic"), now)
        f == Format(template, v)
        d == Format(dir_template, v)
        first == IF f.error # "none" THEN f.error ELSE d.error
    IN  IF first = "none"
        THEN [vars |-> v, filename |-> f.text, subdir |-> d.text,
              fallback |-> FALSE, raised |-> FALSE]
        ELSE IF first = "KeyError"
        THEN [vars |-> v, filename |-> FallbackName(camera, v), subdir |-> "",
              fallback |-> TRUE, raised |-> FALSE]
        ELSE [vars |-> v, filename |-> "", subdir |-> "",
              fallback |-> FALSE, raised |-> TRUE]

\* lines 83-124 of one pass of the loop of run()
RenderPath ==
    /\ npc = "render"
    /\ LET r == Render(name, cam_config, event_start)
       IN  /\ tvars' = r.vars
           /\ filename' = r.filename
           /\ subdir' = r.subdir
           /\ fallback' = r.fallback
           /\ run_raised' = r.raised
           /\ npc' = IF r.raised THEN "raised" ELSE "rendered"
    /\ UNCHANGED <<name, cam_config, output_folder, event_start, output_path>>

\* lines 127-139: the output path, and the call of generate_video with it
ProduceClip ==
    /\ npc = "rendered"
    /\ output_path' = [folder |-> output_folder, subdir |-> subdir,
                       filename |-> filename]
    /\ npc' = "produce"
    /\ UNCHANGED <<name, cam_config, output_folder, event_start, tvars,
                   filename, subdir, fallback, run_raised>>

----------------------------------------------------------------------------
(* camera.py, lines 153-169: retention *)

\* a file under output_folder: directly in it or in a subdirectory, its
\* suffix, its modification time
File(id, place, suffix, mtime) ==
    [id |-> id, place |-> place, suffix |-> suffix, mtime |-> mtime]

\* Path(self.output_folder).glob("*.mp4")
Glob(dir) == {f \in dir : f.place = "top" /\ f.suffix = "mp4"}

\* sorted(..., key=os.path.getmtime): the orders of the set by ascending
\* mtime; files of equal mtime keep the order glob listed them in, which is
\* any order
RECURSIVE SortedByMtime(_)
SortedByMtime(fs) ==
    IF fs = {} THEN {<<>>}
    ELSE UNION {{<<f>> \o rest : rest \in SortedByMtime(fs \ {f})} :
                f \in {g \in fs : \A h \in fs : g.mtime <= h.mtime}}

DefaultRetentionCount == 100

\* faulty variant: the slice keeps the oldest files and deletes the newest
ToDeleteNewest(sorted, retention) ==
    IF Len(sorted) > retention
    THEN SubSeq(sorted, retention + 1, Len(sorted))
    ELSE <<>>

\* lines 162-163: to_delete = files[:len(files) - retention]
ToDelete(sorted, retention) ==
    IF Len(sorted) > retention
    THEN SubSeq(sorted, 1, Len(sorted) - retention)
    ELSE <<>>

Range1(seq) == {seq[i] : i \in 1 .. Len(seq)}

\* lines 153-169: _cleanup_old_files; os.remove may raise for any of the
\* files, the file then stays
CleanupOldFiles ==
    /\ rpc = "cleanup"
    /\ rpc' = "cleaned"
    /\ files_before' = files
    /\ IF ~Get(global_config.cleanup_old_files, TRUE)
       THEN UNCHANGED <<files, to_delete, remove_failed>>
       ELSE LET retention == Get(global_config.retention_count, DefaultRetentionCount)
            IN  \E sorted \in SortedByMtime(Glob(files)) :
                  /\ to_delete' = ToDelete(sorted, retention)
                  /\ \E failed \in SUBSET Range1(ToDelete(sorted, retention)) :
                       /\ remove_failed' = failed
                       /\ files' = files \ (Range1(ToDelete(sorted, retention)) \ failed)
    /\ UNCHANGED global_config

----------------------------------------------------------------------------
(* Simulator (simulator.py) and the threads running CameraSimulator.run    *)
(* (camera.py).  The clock of this part counts hours.  A camera is its     *)
(* index in self.cameras.                                                  *)

Cams == 1 .. Len(cameras)

\* simulator.py line 63: the default of run_duration_hours
DefaultRunDurationHours == 24
\* camera.py line 39: timedelta(days=365)
UnboundedDays == 365

\* timedelta(days=d), in hours
Days(d) == d * 24

\* faulty variant: a run_duration of zero makes an empty window
ScheduleEndZeroIsEmpty(start, hours) == start + hours

\* camera.py line 39: end_time of generate_schedule
ScheduleEnd(start, hours) ==
    IF hours > 0 THEN start + hours ELSE start + Days(UnboundedDays)

\* most events the schedule of one camera holds
MaxSchedule == 2

\* most calls of start() on one simulator
MaxStarts == 2

\* what create_pattern(pattern_type, pattern_config, start, end) may return:
\* events an hour apart from start on, each starting inside the window, or
\* none at all
Schedules(start, end) ==
    {[k \in 1 .. n |-> start + (k - 1)] :
        n \in {m \in 0 .. MaxSchedule : m = 0 \/ start + (m - 1) < end}}

\* an entry of the history of one camera
Entry(op, i) == [op |-> op, event |-> i]

\* history: the events of camera c that have passed the flag check of line 61
Admitted(c) ==
    IF run_pc[c] \in {"sleeping", "generating", "cleanup"}
    THEN run_i[c]
    ELSE run_i[c] - 1

\* simulator.py lines 58-65: start(start_time), up to the first loop
Start ==
    /\ sim_pc = "start"
    /\ sim_start_time' = IF arg_start_time.present THEN arg_start_time.value ELSE clock
    /\ run_duration' = Get(sim_config.run_duration_hours, DefaultRunDurationHours)
    /\ sim_pc' = "schedules"
    /\ sim_i' = 1
    /\ UNCHANGED <<sim_config, cameras, arg_start_time, clock, running, threads,
                   cam_events, window_end, stop_flag, stats, run_pc, run_i,
                   artifacts, log, interrupted, timed_out>>

\* simulator.py lines 68-69 and 72, camera.py lines 37-48: one pass of
\* "for cam in self.cameras: cam.generate_schedule(start_time, run_duration)";
\* after the last camera, self.running = True
GenerateSchedules ==
    /\ sim_pc = "schedules"
    /\ IF sim_i > Len(cameras)
       THEN /\ running' = TRUE
            /\ sim_pc' = "threads"
            /\ sim_i' = 1
            /\ UNCHANGED <<cam_events, window_end>>
       ELSE LET end == ScheduleEnd(sim_start_time, run_duration)
            IN  /\ \E ev \in Schedules(sim_start_time, end) :
                     cam_events' = [cam_events EXCEPT ![sim_i] = ev]
                /\ window_end' = [window_end EXCEPT ![sim_i] = Key(end)]
                /\ sim_i' = sim_i + 1
                /\ UNCHANGED <<running, sim_pc>>
    /\ UNCHANGED <<sim_config, cameras, arg_start_time, clock, threads,
                   sim_start_time, run_duration, stop_flag, stats, run_pc, run_i,
                   artifacts, log, interrupted, timed_out>>

\* simulator.py lines 73-77: one pass of the loop that starts the threads
StartThreads ==
    /\ sim_pc = "threads"
    /\ IF sim_i > Len(cameras)
       THEN /\ sim_pc' = "monitor"
            /\ UNCHANGED <<sim_i, threads, run_pc>>
       ELSE /\ run_pc' = [run_pc EXCEPT ![sim_i] = "run"]
            /\ threads' = Append(threads, sim_i)
            /\ sim_i' = sim_i + 1
            /\ UNCHANGED sim_pc
    /\ UNCHANGED <<sim_config, cameras, arg_start_time, clock, running,
                   sim_start_time, run_duration, cam_events, window_end, stop_flag,
                   stats, run_i, artifacts, log, interrupted, timed_out>>

\* run() of camera t is being executed
IsAlive(t) == run_pc[t] \notin {"unstarted", "returned"}

\* t.is_alive() of the k-th thread of self.threads: the list keeps the
\* threads of earlier calls of start(), which have finished, and only the
\* last thread of a camera can be the one that executes its run()
ThreadAlive(k) ==
    /\ IsAlive(threads[k])
    /\ \A j \in k + 1 .. Len(threads) : threads[j] # threads[k]

\* faulty variant: the monitor counts the threads that have finished
AliveCountOfFinished == Cardinality({k \in 1 .. Len(threads) : ~ThreadAlive(k)})

\* simulator.py line 82
AliveCount == Cardinality({k \in 1 .. Len(threads) : ThreadAlive(k)})

\* simulator.py lines 81-85: the head of the monitor loop
Monitor ==
    /\ sim_pc = "monitor"
    /\ sim_pc' = IF ~running \/ AliveCount = 0 THEN "returned" ELSE "status"
    /\ UNCHANGED <<sim_config, cameras, arg_start_time, clock, sim_i, running,
                   threads, sim_start_time, run_duration, cam_events, window_end,
                   stop_flag, stats, run_pc, run_i, artifacts, log,
                   interrupted, timed_out>>

\* simulator.py lines 87-88 and 94-109: _print_status reads the counters,
\* then the loop sleeps status_interval_seconds
PrintStatus ==
    /\ sim_pc = "status"
    /\ sim_pc' = "monitor"
    /\ UNCHANGED <<sim_config, cameras, arg_start_time, clock, sim_i, running,
                   threads, sim_start_time, run_duration, cam_events, window_end,
                   stop_flag, stats, run_pc, run_i, artifacts, log,
                   interrupted, timed_out>>

\* simulator.py lines 90-92 and 112: KeyboardInterrupt reaches the monitor
\* loop; stop() begins with self.running = False
KeyboardInterrupt ==
    /\ sim_pc \in {"monitor", "status"}
    /\ interrupted' = TRUE
    /\ running' = FALSE
    /\ sim_pc' = "stop"
    /\ sim_i' = 1
    /\ UNCHANGED <<sim_config, cameras, arg_start_time, clock, threads,
                   sim_start_time, run_duration, cam_events, window_end, stop_flag,
                   stats, run_pc, run_i, artifacts, log, timed_out>>

\* faulty variant: stop() sets no flag after the first camera's
StopFlagsFirstOnly(flags, cam) == IF cam = 1 THEN [flags EXCEPT ![cam] = TRUE] ELSE flags

\* camera.py lines 171-172: stop()
StopFlags(flags, cam) == [flags EXCEPT ![cam] = TRUE]

\* simulator.py lines 113-114: one pass of "for cam in self.cameras: cam.stop()"
StopCameras ==
    /\ sim_pc = "stop"
    /\ IF sim_i > Len(cameras)
       THEN /\ sim_pc' = "join"
            /\ sim_i' = 1
            /\ UNCHANGED <<stop_flag, log>>
       ELSE /\ stop_flag' = StopFlags(stop_flag, sim_i)
            /\ log' = [log EXCEPT ![sim_i] = Append(@, Entry("stop", Admitted(sim_i)))]
            /\ sim_i' = sim_i + 1
            /\ UNCHANGED sim_pc
    /\ UNCHANGED <<sim_config, cameras, arg_start_time, clock, running, threads,
                   sim_start_time, run_duration, cam_events, window_end, stats,
                   run_pc, run_i, artifacts, interrupted, timed_out>>

\* simulator.py lines 117-118: one pass of "for t in self.threads:
\* t.join(timeout=1.0)"; join returns when the thread has ended or when the
\* second has passed, whichever is first
JoinThreads ==
    /\ sim_pc = "join"
    /\ IF sim_i > Len(threads)
       THEN /\ sim_pc' = "returned"
            /\ UNCHANGED <<sim_i, timed_out>>
       ELSE /\ sim_i' = sim_i + 1
            /\ timed_out' = IF ThreadAlive(sim_i)
                            THEN timed_out \cup {threads[sim_i]}
                            ELSE timed_out
            /\ UNCHANGED sim_pc
    /\ UNCHANGED <<sim_config, cameras, arg_start_time, clock, running, threads,
                   sim_start_time, run_duration, cam_events, window_end, stop_flag,
                   stats, run_pc, run_i, artifacts, log, interrupted>>

\* what the coordinator owns, which no thread of a camera writes
coordVars == <<sim_config, cameras, arg_start_time, sim_pc, sim_i, running,
               threads, sim_start_time, run_duration, cam_events, window_end,
               stop_flag, interrupted, timed_out>>

\* faulty variant: only the presence of the source_video key is tested
SourceNamed(c) == cameras[c].source_video # "none"

\* camera.py line 52: self.source_video and os.path.exists(self.source_video).
\* The source is "none" (no source_video key), "nofile" (a path that does
\* not exist) or "file"
SourceFound(c) == cameras[c].source_video = "file"

\* camera.py lines 52-56: the source check of run()
RunSourceCheck(c) ==
    /\ run_pc[c] = "run"
    /\ IF ~SourceFound(c)
       THEN run_pc' = [run_pc EXCEPT ![c] = "returned"]
       ELSE run_pc' = [run_pc EXCEPT ![c] = "loop"]
    /\ run_i' = [run_i EXCEPT ![c] = 1]
    /\ UNCHANGED <<coordVars, clock, stats, artifacts, log>>

\* faulty variant: the loop does not look at the stop flag
LoopTargetIgnoringStop(c) ==
    IF run_i[c] > Len(cam_events[c]) THEN "returned"
    ELSE IF cameras[c].use_real_time /\ cam_events[c][run_i[c]] > clock THEN "sleeping"
    ELSE "generating"

\* camera.py lines 60-71: the head of one pass of the loop: the end of the
\* schedule, the stop flag, then the real-time wait
LoopTarget(c) ==
    IF run_i[c] > Len(cam_events[c]) THEN "returned"
    ELSE IF stop_flag[c] THEN "returned"
    ELSE IF cameras[c].use_real_time /\ cam_events[c][run_i[c]] > clock THEN "sleeping"
    ELSE "generating"

\* camera.py lines 83-139: the path is rendered (RenderPath above; the cameras
\* here keep the default templates, which always render) and generate_video
\* is called
CallGenerateVideo(c) == [log EXCEPT ![c] = Append(@, Entry("generate", run_i[c]))]

\* camera.py lines 60-139: one pass of the loop up to the real-time wait or,
\* without a wait, up to the call of generate_video
RunLoop(c) ==
    /\ run_pc[c] = "loop"
    /\ run_pc' = [run_pc EXCEPT ![c] = LoopTarget(c)]
    /\ log' = IF LoopTarget(c) = "generating" THEN CallGenerateVideo(c) ELSE log
    /\ UNCHANGED <<coordVars, clock, stats, run_i, artifacts>>

\* faulty variant: time.sleep returns at once
SleepIsOverAtOnce(c) == TRUE

\* camera.py lines 68-71: time.sleep(wait_seconds) returns once the wait is over
SleepIsOver(c) == clock >= cam_events[c][run_i[c]]

\* camera.py lines 71-139: the wait is over, generate_video is called
RunWake(c) ==
    /\ run_pc[c] = "sleeping"
    /\ SleepIsOver(c)
    /\ run_pc' = [run_pc EXCEPT ![c] = "generating"]
    /\ log' = CallGenerateVideo(c)
    /\ UNCHANGED <<coordVars, clock, stats, run_i, artifacts>>

\* faulty variant: the loop passes over every other event
NextEventSkipping(i) == i + 2

\* camera.py line 60: the for loop takes the events one after the other
NextEvent(i) == i + 1

\* faulty variant: a failed production ends run()
AfterFailureReturn == "returned"

\* camera.py lines 145-151: after a failure the loop goes on
AfterFailure == "loop"

\* camera.py line 146
CountFailure(st) == [st EXCEPT !.errors = @ + 1]

\* faulty variant: the cameras share one stats dictionary
FailureCountedInEveryCamera(c) == [d \in Cams |-> CountFailure(stats[d])]

\* camera.py lines 32 and 146: self.stats belongs to the camera
FailureCounted(c) == [stats EXCEPT ![c] = CountFailure(@)]

\* camera.py lines 84, 120 and 127: the folder the file goes to, the output
\* folder itself or, with a directory_structure, a folder below it
Place(c) == IF cameras[c].directory_structure = "" THEN "top" ELSE "sub"

\* camera.py lines 127-139 and video_generator.py lines 87-92: the file of
\* the event, its mtime set to the event's start time
Written(c) == File(run_i[c], Place(c), "mp4", cam_events[c][run_i[c]])

\* video_generator.py lines 46-96 and camera.py lines 141-151:
\* generate_video returns True, having written the file with the event's
\* start time as its mtime, or False (ffmpeg failed or an exception was
\* caught); run() counts the outcome, and after a failure goes to the next
\* event
RunGenerated(c) ==
    /\ run_pc[c] = "generating"
    /\ \E success \in BOOLEAN :
         IF success
         THEN /\ stats' = [stats EXCEPT ![c].videos_created = @ + 1]
              /\ artifacts' = [artifacts EXCEPT ![c] =
                     @ \cup {Written(c)}]
              /\ log' = [log EXCEPT ![c] = Append(@, Entry("success", run_i[c]))]
              /\ run_pc' = [run_pc EXCEPT ![c] = "cleanup"]
              /\ UNCHANGED run_i
         ELSE /\ stats' = FailureCounted(c)
              /\ log' = [log EXCEPT ![c] = Append(@, Entry("failure", run_i[c]))]
              /\ run_pc' = [run_pc EXCEPT ![c] = AfterFailure]
              /\ run_i' = [run_i EXCEPT ![c] = NextEvent(@)]
              /\ UNCHANGED artifacts
    /\ UNCHANGED <<coordVars, clock>>

\* camera.py lines 144 and 149-162: _cleanup_old_files over the camera's
\* output folder, then the next event
RunCleanup(c) ==
    /\ run_pc[c] = "cleanup"
    /\ run_pc' = [run_pc EXCEPT ![c] = "loop"]
    /\ run_i' = [run_i EXCEPT ![c] = NextEvent(@)]
    /\ log' = [log EXCEPT ![c] = Append(@, Entry("cleanup", run_i[c]))]
    /\ IF ~Get(sim_config.cleanup_old_files, TRUE)
       THEN UNCHANGED artifacts
       ELSE LET retention == Get(sim_config.retention_count, DefaultRetentionCount)
            IN  \E sorted \in SortedByMtime(Glob(artifacts[c])) :
                  \E failed \in SUBSET Range1(ToDelete(sorted, retention)) :
                    artifacts' = [artifacts EXCEPT ![c] =
                        @ \ (Range1(ToDelete(sorted, retention)) \ failed)]
    /\ UNCHANGED <<coordVars, clock, stats>>

\* datetime.now() moves on, as long as a scheduled event lies ahead
Tick ==
    /\ \E c \in Cams : \E k \in 1 .. Len(cam_events[c]) : cam_events[c][k] > clock
    /\ clock' = clock + 1
    /\ UNCHANGED <<coordVars, stats, run_pc, run_i, artifacts, log>>

----------------------------------------------------------------------------
(* The calls of create_pattern that are checked *)

PatternInputs == PatternType \cup {"timelapse"}

\* short windows (a few ticks) go with ranges of a few grains, long windows
\* (minutes to hours) with the defaults and a range of minutes
ShortVideoRanges ==
    {Absent, Malformed, Range(0, 0), Range(2, 2), Range(4, 5), Range(7, 7)}

ShortIdleRanges == {Absent, Malformed, Range(2, 3), Range(5, 5)}

ShortWindows == {0, 1, 2, 5, 9}

LongVideoRanges == {Absent, Malformed, Range(40 * Minute, 40 * Minute)}

LongIdleRanges == {Absent, Malformed, Range(10 * Minute, 10 * Minute)}

LongWindows ==
    {15 * TicksPerMinute + 1, 32 * TicksPerMinute, 75 * TicksPerMinute,
     125 * TicksPerMinute}

StartTimes == {7}

SynthInit ==
    /\ pattern_type \in PatternInputs
    /\ start_time \in StartTimes
    /\ \/ /\ config \in [video_duration_range : ShortVideoRanges,
                         idle_duration_range : ShortIdleRanges]
          /\ end_time \in {start_time + w : w \in ShortWindows}
       \/ /\ config \in [video_duration_range : LongVideoRanges,
                         idle_duration_range : LongIdleRanges]
          /\ end_time \in {start_time + w : w \in LongWindows}
    /\ pc = "create"
    /\ current_time = 0
    /\ events = <<>>
    /\ cont = NoFrame
    /\ blocks = <<>>
    /\ result = <<>>
    /\ raised = FALSE
    /\ fault = FALSE

\* no call of create_pattern is under way
SynthIdle ==
    /\ pattern_type = "continuous"
    /\ config = [video_duration_range |-> Absent, idle_duration_range |-> Absent]
    /\ start_time = 0
    /\ end_time = 0
    /\ pc = "idle"
    /\ current_time = 0
    /\ events = <<>>
    /\ cont = NoFrame
    /\ blocks = <<>>
    /\ result = <<>>
    /\ raised = FALSE
    /\ fault = FALSE

CameraNames ==
    {<<"C", "a", "m", "e", "r", "a", "0", "3">>, <<"C", "a", "m", "1">>,
     <<"L", "o", "b", "b", "y">>, <<"C", "a", "m", "0", "0", "7">>,
     <<"F", "2", "C", "a", "m", "1", "4">>, <<"G", "a", "t", "e", "0">>}

Profiles == {Key("dahua"), Key("imou"), Key("tapo"), Key("hikvision"), NoText}

NamingTemplates ==
    {NoKey,
     Key(<<Field("time"), Lit(".mp4")>>),
     Key(<<Lit("ch"), Field("channel"), Lit("_"), Field("date"), Lit("_"),
           Field("time"), Lit("_"), Field("type"), Lit(".mp4")>>),
     Key(<<Field("camera"), Lit("_"), Field("time"), Lit(".mp4")>>),
     Key(<<Positional, Lit("_"), Field("time"), Lit(".mp4")>>)}

DirectoryStructures ==
    {NoKey,
     Key(<<Field("date"), Lit("/"), Field("channel"), Lit("/")>>),
     Key(<<Field("year"), Lit("/"), Field("date"), Lit("/")>>),
     Key(<<Positional, Lit("/")>>)}

DateTime(y, mo, d, h, mi, sec) ==
    [year |-> y, month |-> mo, day |-> d, hour |-> h, minute |-> mi, second |-> sec]

EventStarts ==
    {DateTime(2024, 3, 5, 14, 7, 9), DateTime(2024, 1, 1, 0, 0, 0),
     DateTime(2023, 12, 31, 23, 59, 59), DateTime(2025, 11, 20, 9, 30, 5)}

NoVars == [name |-> "", channel |-> "", date |-> "", time |-> "",
           timestamp |-> "", type |-> ""]
NoPath == [folder |-> "", subdir |-> "", filename |-> ""]

NamerInit ==
    /\ name \in CameraNames
    /\ cam_config \in [profile : Profiles, naming_template : NamingTemplates,
                       directory_structure : DirectoryStructures]
    /\ output_folder = "output/" \o Join(name)
    /\ event_start \in EventStarts
    /\ npc = "render"
    /\ tvars = NoVars
    /\ filename = ""
    /\ subdir = ""
    /\ output_path = NoPath
    /\ fallback = FALSE
    /\ run_raised = FALSE

\* no pass of the loop of run() is under way
NamerIdle ==
    /\ name = <<>>
    /\ cam_config = [profile |-> NoText, naming_template |-> NoKey,
                     directory_structure |-> NoKey]
    /\ output_folder = ""
    /\ event_start = DateTime(2024, 1, 1, 0, 0, 0)
    /\ npc = "idle"
    /\ tvars = NoVars
    /\ filename = ""
    /\ subdir = ""
    /\ output_path = NoPath
    /\ fallback = FALSE
    /\ run_raised = FALSE

\* the directories that are checked: up to MaxFiles files, listed by kind and
\* mtime (the names do not matter: glob lists them in any order)
MaxFiles == 5

FileKinds ==
    <<[place |-> "top", suffix |-> "mp4", mtime |-> 10],
      [place |-> "top", suffix |-> "mp4", mtime |-> 20],
      [place |-> "top", suffix |-> "mp4", mtime |-> 30],
      [place |-> "top", suffix |-> "log", mtime |-> 10],
      [place |-> "sub", suffix |-> "mp4", mtime |-> 20]>>

Directories ==
    UNION {{ {File(i, FileKinds[k[i]].place, FileKinds[k[i]].suffix,
                   FileKinds[k[i]].mtime) : i \in 1 .. n} :
             k \in {c \in [1 .. n -> 1 .. Len(FileKinds)] :
                      \A i \in 1 .. n - 1 : c[i] <= c[i + 1]} } :
           n \in 0 .. MaxFiles}

RetentionCounts == {NoCount, Key(0), Key(1), Key(2), Key(3), Key(4)}

RetentionInit ==
    /\ global_config \in [cleanup_old_files : {NoFlag, Key(TRUE), Key(FALSE)},
                          retention_count : RetentionCounts]
    /\ files \in Directories
    /\ rpc = "cleanup"
    /\ to_delete = <<>>
    /\ files_before = {}
    /\ remove_failed = {}

\* no retention pass is under way
RetentionIdle ==
    /\ global_config = [cleanup_old_files |-> NoFlag, retention_count |-> NoCount]
    /\ files = {}
    /\ rpc = "idle"
    /\ to_delete = <<>>
    /\ files_before = {}
    /\ remove_failed = {}

\* the camera entries of the configuration: a camera with its source and a
\* fast loop, one paced in real time, one without a source_video key, one
\* whose source path does not exist, and one that files its videos by date
FastCamera ==
    [source_video |-> "file", use_real_time |-> FALSE, directory_structure |-> ""]
PacedCamera ==
    [source_video |-> "file", use_real_time |-> TRUE, directory_structure |-> ""]
NoSourceCamera ==
    [source_video |-> "none", use_real_time |-> FALSE, directory_structure |-> ""]
LostSourceCamera ==
    [source_video |-> "nofile", use_real_time |-> TRUE, directory_structure |-> ""]
DatedCamera ==
    [source_video |-> "file", use_real_time |-> FALSE, directory_structure |-> "{date}/"]

CameraSets ==
    {<<>>, <<FastCamera>>, <<FastCamera, PacedCamera>>,
     <<NoSourceCamera, FastCamera>>, <<PacedCamera, LostSourceCamera>>,
     <<DatedCamera>>}

\* a video an earlier run left in the output folder, stamped a day after the
\* clock's first hour
LeftOver == File(0, "top", "mp4", Days(1))

\* the output folders when start() is called: empty, or for the camera that
\* runs alone, holding the video of an earlier run
OutputFolders(cams) ==
    {[c \in DOMAIN cams |-> {}]} \cup
    (IF cams = <<FastCamera>> THEN {[c \in DOMAIN cams |-> {LeftOver}]} ELSE {})

\* the simulator section of the configuration with the argument of start()
SimInputs ==
    {[config |-> [run_duration_hours |-> NoCount, cleanup_old_files |-> NoFlag,
                  retention_count |-> NoCount],
      start |-> NoCount],
     [config |-> [run_duration_hours |-> Key(0), cleanup_old_files |-> Key(FALSE),
                  retention_count |-> Key(1)],
      start |-> Key(0)],
     [config |-> [run_duration_hours |-> Key(2), cleanup_old_files |-> Key(TRUE),
                  retention_count |-> Key(1)],
      start |-> Key(2)],
     [config |-> [run_duration_hours |-> Key(1), cleanup_old_files |-> NoFlag,
                  retention_count |-> Key(0)],
      start |-> NoCount]}

\* after Simulator(config) and setup(): the cameras are constructed, start()
\* is about to be called
SimSetup(sets, inputs) ==
    /\ cameras \in sets
    /\ \E inp \in inputs :
         /\ sim_config = inp.config
         /\ arg_start_time = inp.start
    /\ clock = 1
    /\ sim_pc = "start"
    /\ sim_i = 0
    /\ running = FALSE
    /\ threads = <<>>
    /\ sim_start_time = 0
    /\ run_duration = 0
    /\ cam_events = [c \in Cams |-> <<>>]
    /\ window_end = [c \in Cams |-> NoCount]
    /\ stop_flag = [c \in Cams |-> FALSE]
    /\ stats = [c \in Cams |-> [videos_created |-> 0, errors |-> 0]]
    /\ run_pc = [c \in Cams |-> "unstarted"]
    /\ run_i = [c \in Cams |-> 1]
    /\ artifacts \in OutputFolders(cameras)
    /\ log = [c \in Cams |-> <<>>]
    /\ interrupted = FALSE
    /\ timed_out = {}

SimInit == SimSetup(CameraSets, SimInputs)

\* no simulator is set up
SimIdle ==
    /\ cameras = <<>>
    /\ sim_config = [run_duration_hours |-> NoCount, cleanup_old_files |-> NoFlag,
                     retention_count |-> NoCount]
    /\ arg_start_time = NoCount
    /\ clock = 0
    /\ sim_pc = "idle"
    /\ sim_i = 0
    /\ running = FALSE
    /\ threads = <<>>
    /\ sim_start_time = 0
    /\ run_duration = 0
    /\ cam_events = <<>>
    /\ window_end = <<>>
    /\ stop_flag = <<>>
    /\ stats = <<>>
    /\ run_pc = <<>>
    /\ run_i = <<>>
    /\ artifacts = <<>>
    /\ log = <<>>
    /\ interrupted = FALSE
    /\ timed_out = {}

SynthNext ==
    \/ CreatePattern /\ UNCHANGED <<namerVars, retentionVars, simVars>>
    \/ GenerateContinuous /\ UNCHANGED <<namerVars, retentionVars, simVars>>
    \/ GenerateMotion /\ UNCHANGED <<namerVars, retentionVars, simVars>>
    \/ GenerateEvent /\ UNCHANGED <<namerVars, retentionVars, simVars>>
    \/ GenerateRandom /\ UNCHANGED <<namerVars, retentionVars, simVars>>

InitSynth == SynthInit /\ NamerIdle /\ RetentionIdle /\ SimIdle

SpecSynth == InitSynth /\ [][SynthNext]_vars

NamerNext ==
    \/ RenderPath /\ UNCHANGED <<synthVars, retentionVars, simVars>>
    \/ ProduceClip /\ UNCHANGED <<synthVars, retentionVars, simVars>>

InitNamer == NamerInit /\ SynthIdle /\ RetentionIdle /\ SimIdle

RetentionNext == CleanupOldFiles /\ UNCHANGED <<synthVars, namerVars, simVars>>

InitRetention == RetentionInit /\ SynthIdle /\ NamerIdle /\ SimIdle

SpecRetention == InitRetention /\ [][RetentionNext]_vars

SpecNamer == InitNamer /\ [][NamerNext]_vars

\* every thread of a camera
Runner(c) ==
    \/ RunSourceCheck(c)
    \/ RunLoop(c)
    \/ RunWake(c)
    \/ RunGenerated(c)
    \/ RunCleanup(c)

Coordinator ==
    \/ Start
    \/ GenerateSchedules
    \/ StartThreads
    \/ Monitor
    \/ PrintStatus
    \/ StopCameras
    \/ JoinThreads

SimNext ==
    \/ Coordinator /\ UNCHANGED <<synthVars, namerVars, retentionVars>>
    \/ KeyboardInterrupt /\ UNCHANGED <<synthVars, namerVars, retentionVars>>
    \/ (\E c \in Cams : Runner(c)) /\ UNCHANGED <<synthVars, namerVars, retentionVars>>
    \/ Tick /\ UNCHANGED <<synthVars, namerVars, retentionVars>>

InitSim == SimInit /\ SynthIdle /\ NamerIdle /\ RetentionIdle

SpecSim == InitSim /\ [][SimNext]_vars

\* the camera indices of the largest camera set
CameraIds == UNION {DOMAIN cs : cs \in CameraSets}

\* the scheduler lets every thread run, the calls of generate_video return,
\* the main thread runs, and time passes; nothing forces a KeyboardInterrupt
SimFairness ==
    /\ \A c \in CameraIds : WF_simVars(c \in Cams /\ Runner(c))
    /\ WF_simVars(Coordinator)
    /\ WF_simVars(Tick)

\* the caller calls start() once more, after the call before has returned and
\* the threads it left behind have finished; the history notes the call
Restart ==
    /\ sim_pc = "returned"
    /\ cameras # <<>>
    /\ \A c \in Cams : ~IsAlive(c)
    /\ Len(threads) < MaxStarts * Len(cameras)
    /\ sim_pc' = "start"
    /\ log' = [c \in Cams |-> Append(log[c], Entry("start", 0))]
    /\ UNCHANGED <<sim_config, cameras, arg_start_time, clock, sim_i, running,
                   threads, sim_start_time, run_duration, cam_events, window_end,
                   stop_flag, stats, run_pc, run_i, artifacts, interrupted,
                   timed_out>>


\* the set-ups whose runs are followed to their end: one thread at work next
\* to none or to one that gives up at once, and two threads at work on
\* schedules of at most one event
FairCameraSets == {<<>>, <<PacedCamera>>, <<NoSourceCamera, FastCamera>>}

ShortRunInputs == {inp \in SimInputs : inp.config.run_duration_hours = Key(1)}

InitSimFair ==
    /\ \/ SimSetup(FairCameraSets, SimInputs)
       \/ SimSetup({<<FastCamera, PacedCamera>>}, ShortRunInputs)
    /\ SynthIdle /\ NamerIdle /\ RetentionIdle

SpecSimFair == InitSimFair /\ [][SimNext]_vars /\ SimFairness

\* the calls of start() with a start time that lies ahead
LaterStartInputs == {inp \in SimInputs : inp.start = Key(2)}

\* the set-ups that are started more than once: a camera that paces itself
\* by the clock, started for a time ahead or for now, and one that does not
\* pace itself next to one without a source
InitRestart ==
    /\ \/ SimSetup({<<PacedCamera>>}, LaterStartInputs \cup ShortRunInputs)
       \/ SimSetup({<<FastCamera, NoSourceCamera>>}, ShortRunInputs)
    /\ SynthIdle /\ NamerIdle /\ RetentionIdle

RestartNext ==
    \/ SimNext
    \/ Restart /\ UNCHANGED <<synthVars, namerVars, retentionVars>>

SpecRestart == InitRestart /\ [][RestartNext]_vars

----------------------------------------------------------------------------
(* Properties of the generated schedule *)

\* when an event ends, as the code computes it: start_time + timedelta(minutes=duration)
EndOf(e) == e.start_time + TimeDelta(e.duration_minutes)

\* the duration range the pattern kind reads, with the kind's default
ConfiguredVideoRange ==
    ConfigGet(config.video_duration_range,
              CASE pattern_type = "motion_triggered" -> DefaultMotionVideo
                [] pattern_type = "event_triggered" -> DefaultEventVideo
                [] OTHER -> DefaultContinuousVideo)

\* C1: for every pattern kind, parameter set and window, the schedule is
\* time-ordered and non-overlapping: each event ends no later than the next
\* one starts (it may end exactly there)
C1_OrderedNonOverlapping ==
    \A i \in 1 .. Len(Emitted) - 1 : EndOf(Emitted[i]) <= Emitted[i + 1].start_time

\* a returned random on/off schedule of at least three events over two or
\* more blocks, two of the events back to back
C1_Witness ==
    /\ pc = "done"
    /\ Len(result) >= 3
    /\ pattern_type = "random_on_off"
    /\ Len(blocks) >= 2
    /\ \E i \in 1 .. Len(result) - 1 : EndOf(result[i]) = result[i + 1].start_time

\* C2: no event of the schedule ends after the window end; an event that
\* would cross it is truncated to end exactly there
C2_WithinWindow ==
    \A i \in 1 .. Len(Emitted) :
        /\ EndOf(Emitted[i]) <= end_time
        /\ Emitted[i].truncated /\ pattern_type # "random_on_off"
             => EndOf(Emitted[i]) = end_time

\* a returned schedule whose last event was truncated and ends at end_time
C2_Witness ==
    /\ pc = "done"
    /\ Len(result) >= 2
    /\ result[Len(result)].truncated
    /\ EndOf(result[Len(result)]) = end_time

\* C3: no event of a returned schedule has a duration below 0.1 minute,
\* whether the duration was truncated at the window end or sampled directly
C3_NoShortEvent ==
    pc = "done" => \A i \in 1 .. Len(result) : ~BelowTenth(result[i].duration_minutes)

\* C4: an event that was not truncated has a duration inside the configured
\* [min, max], exactly min when min = max; no event at all exceeds max
C4_DurationInRange ==
    \A i \in 1 .. Len(Emitted) :
        LET e == Emitted[i]
            r == ConfiguredVideoRange
        IN  /\ r.kind = "range"
            /\ e.duration_minutes <= r.hi
            /\ ~e.truncated => r.lo <= e.duration_minutes
            /\ ~e.truncated /\ r.lo = r.hi => e.duration_minutes = r.lo

\* a returned schedule with an event of a sampled duration, from a range with
\* min < max, and a truncated one
C4_Witness ==
    /\ pc = "done"
    /\ ConfiguredVideoRange.lo < ConfiguredVideoRange.hi
    /\ \E i \in 1 .. Len(result) : ~result[i].truncated
    /\ \E i \in 1 .. Len(result) : result[i].truncated

\* the continuous schedule over [start_time, end_time] is not empty: the
\* range is well formed and the window is at least 0.1 minute long
ContinuousNotEmpty ==
    /\ config.video_duration_range.kind # "malformed"
    /\ start_time < end_time
    /\ ~BelowTenth(TotalMinutes(end_time - start_time))

\* C5 as claimed: a fault in the generator of a recognized kind makes
\* create_pattern fall back to the continuous schedule of the same window
C5_FallsBackToContinuous ==
    pc = "done" /\ fault /\ pattern_type \in PatternType /\ ContinuousNotEmpty
        => /\ ~raised
           /\ result # <<>>
           /\ result[1].start_time = start_time

\* C5 as amended: a fault in the generator of a recognized kind does not leave
\* create_pattern as an exception; create_pattern returns the empty sequence
C5_FaultReturnsEmpty ==
    /\ ~raised
    /\ pc = "done" /\ fault => result = <<>>

\* motion or event generation faulted on a malformed idle range, in a window
\* for which the continuous schedule is not empty
C5_Witness ==
    /\ pc = "done"
    /\ fault
    /\ pattern_type \in {"motion_triggered", "event_triggered"}
    /\ config.idle_duration_range.kind = "malformed"
    /\ ContinuousNotEmpty

\* C6: for a pattern kind that is none of the four, create_pattern does not
\* raise and the schedule follows the continuous rules: the first event is at
\* start_time, events are back to back, durations come from
\* video_duration_range unless truncated to end at end_time, and the returned
\* schedule leaves less than 0.1 minute of the window unused
C6_UnknownKindIsContinuous ==
    pattern_type \notin PatternType =>
        LET r == ConfigGet(config.video_duration_range, DefaultContinuousVideo)
            n == Len(Emitted)
        IN  /\ ~raised
            /\ n > 0 => Emitted[1].start_time = start_time
            /\ \A i \in 1 .. n - 1 : EndOf(Emitted[i]) = Emitted[i + 1].start_time
            /\ \A i \in 1 .. n :
                 IF Emitted[i].truncated
                 THEN EndOf(Emitted[i]) = end_time
                 ELSE /\ r.lo <= Emitted[i].duration_minutes
                      /\ Emitted[i].duration_minutes <= r.hi
            /\ pc = "done" /\ ~fault /\ start_time < end_time =>
                 LET last == IF n = 0 THEN start_time ELSE EndOf(Emitted[n])
                 IN  last >= end_time
                       \/ BelowTenth(TotalMinutes(end_time - last))

\* an unknown kind returned a schedule of back-to-back events that ends with
\* a truncated one
C6_Witness ==
    /\ pc = "done"
    /\ pattern_type \notin PatternType
    /\ Len(result) >= 2
    /\ result[Len(result)].truncated
    /\ ~result[1].truncated

\* the block an instant falls in (blocks are not empty and do not overlap)
BlockOf(t) == CHOOSE k \in 1 .. Len(blocks) : blocks[k].start <= t /\ t < blocks[k].end

\* C7: in the random on/off pattern the blocks tile [start_time, end_time),
\* "off" blocks hold no event, every event lies inside one "on" block, and
\* inside a block the events follow the continuous rules: the first at the
\* block's start, the others back to back, none crossing the block's end
C7_RandomBlocks ==
    pattern_type = "random_on_off" =>
        LET n == Len(Emitted)
            m == Len(blocks)
        IN  /\ m > 0 => blocks[1].start = start_time
            /\ \A k \in 1 .. m : blocks[k].start < blocks[k].end
            /\ \A k \in 1 .. m - 1 : blocks[k].end = blocks[k + 1].start
            /\ pc = "done" /\ ~fault =>
                 IF start_time < end_time
                 THEN m > 0 /\ blocks[m].end = end_time
                 ELSE m = 0
            /\ \A i \in 1 .. n :
                 /\ \E k \in 1 .. m :
                      /\ blocks[k].is_on
                      /\ blocks[k].start <= Emitted[i].start_time
                      /\ Emitted[i].start_time < blocks[k].end
                      /\ EndOf(Emitted[i]) <= blocks[k].end
                 /\ LET b == blocks[BlockOf(Emitted[i].start_time)]
                    IN  IF i = 1 \/ Emitted[i - 1].start_time < b.start
                        THEN Emitted[i].start_time = b.start
                        ELSE EndOf(Emitted[i - 1]) = Emitted[i].start_time

\* a returned random on/off schedule over an "on" block, an "off" block and
\* an "on" block, with events in both "on" blocks
C7_Witness ==
    /\ pc = "done"
    /\ pattern_type = "random_on_off"
    /\ Len(blocks) = 3
    /\ blocks[1].is_on /\ ~blocks[2].is_on /\ blocks[3].is_on
    /\ \E i \in 1 .. Len(result) : result[i].start_time = blocks[1].start
    /\ \E i \in 1 .. Len(result) : result[i].start_time = blocks[3].start

----------------------------------------------------------------------------
(* Properties of the artifact's name *)

DigitText == <<"0", "1", "2", "3", "4", "5", "6", "7", "8", "9">>

\* n written with exactly two, exactly four digits
TwoDigits(n) == DigitText[((n \div 10) % 10) + 1] \o DigitText[(n % 10) + 1]
FourDigits(n) == TwoDigits(n \div 100) \o TwoDigits(n % 100)

\* YYYYMMDD, HHMMSS, YYYY-MM-DD and HH.MM.SS of a datetime
Compact(a, b, c) == a \o b \o c
Separated(a, b, c, sep) == a \o sep \o b \o sep \o c
ExpectedDate(now, sep) ==
    Separated(FourDigits(now.year), TwoDigits(now.month), TwoDigits(now.day), sep)
ExpectedTime(now, sep) ==
    Separated(TwoDigits(now.hour), TwoDigits(now.minute), TwoDigits(now.second), sep)

\* the digits of a camera name, read as one decimal number: without its
\* leading zeros, then padded with zeros to two digits; "01" without digits
RECURSIVE StripZeros(_)
StripZeros(digits) ==
    IF digits # <<>> /\ Head(digits) = "0" THEN StripZeros(Tail(digits)) ELSE digits

ExpectedChannel(camera) ==
    LET digits == SelectSeq(camera, LAMBDA c : c \in {DigitText[i] : i \in 1 .. 10})
        number == StripZeros(digits)
    IN  IF digits = <<>> THEN "01"
        ELSE IF Len(number) = 0 THEN "00"
        ELSE IF Len(number) = 1 THEN "0" \o number[1]
        ELSE Join(number)

\* C8: once the path of an event is rendered, {date} is YYYY-MM-DD and {time}
\* HH.MM.SS for profile dahua, YYYYMMDD and HHMMSS for every other profile,
\* {timestamp} is YYYYMMDD_HHMMSS, {channel} is the digits of the camera name
\* zero-padded to 2 digits, or 01; dahua, Camera03, 2024-03-05 14:07:09,
\* {time}.mp4 and {date}/{channel}/ give 14.07.09.mp4 under 2024-03-05/03/
C8_ProfileFormats ==
    npc \in {"rendered", "produce"} =>
        LET dahua == cam_config.profile = Key("dahua")
        IN  /\ tvars.date = ExpectedDate(event_start, IF dahua THEN "-" ELSE "")
            /\ tvars.time = ExpectedTime(event_start, IF dahua THEN "." ELSE "")
            /\ tvars.timestamp =
                 ExpectedDate(event_start, "") \o "_" \o ExpectedTime(event_start, "")
            /\ tvars.channel = ExpectedChannel(name)
            /\ /\ dahua
               /\ Join(name) = "Camera03"
               /\ event_start = DateTime(2024, 3, 5, 14, 7, 9)
               /\ cam_config.naming_template = Key(<<Field("time"), Lit(".mp4")>>)
               /\ cam_config.directory_structure =
                    Key(<<Field("date"), Lit("/"), Field("channel"), Lit("/")>>)
               => filename = "14.07.09.mp4" /\ subdir = "2024-03-05/03/"
            /\ /\ ~dahua
               /\ ~fallback
               /\ cam_config.naming_template = Key(<<Field("time"), Lit(".mp4")>>)
               /\ cam_config.directory_structure =
                    Key(<<Field("date"), Lit("/"), Field("channel"), Lit("/")>>)
               => /\ filename = ExpectedTime(event_start, "") \o ".mp4"
                  /\ subdir = ExpectedDate(event_start, "") \o "/"
                                \o ExpectedChannel(name) \o "/"

\* the example of the claim has been rendered and handed to clip production
C8_Witness ==
    /\ npc = "produce"
    /\ cam_config.profile = Key("dahua")
    /\ Join(name) = "Camera03"
    /\ event_start = DateTime(2024, 3, 5, 14, 7, 9)
    /\ output_path = [folder |-> "output/Camera03", subdir |-> "2024-03-05/03/",
                      filename |-> "14.07.09.mp4"]

\* the placeholders the code gives a value
Recognized == {"name", "channel", "date", "time", "timestamp", "type"}

ReferencesUnrecognized(entry, default) ==
    \E i \in 1 .. Len(Get(entry, default)) :
        LET t == Get(entry, default)[i]
        IN  \/ t.kind = "index"
            \/ t.kind = "field" /\ t.text \notin Recognized

\* C9: a naming or directory template that references a placeholder outside
\* the recognized set never makes an exception leave run(): the filename is
\* <name>_<YYYYMMDD_HHMMSS>.mp4, the subdirectory is empty, and clip
\* production goes on with that path
C9_UnrecognizedFallsBack ==
    /\ npc # "render"
    /\ \/ ReferencesUnrecognized(cam_config.naming_template, DefaultNamingTemplate)
       \/ ReferencesUnrecognized(cam_config.directory_structure, DefaultDirectoryStructure)
    => /\ ~run_raised
       /\ npc \in {"rendered", "produce"}
       /\ filename = Join(name) \o "_" \o ExpectedDate(event_start, "") \o "_"
                       \o ExpectedTime(event_start, "") \o ".mp4"
       /\ subdir = ""
       /\ npc = "produce" =>
            output_path = [folder |-> output_folder, subdir |-> "",
                           filename |-> filename]

----------------------------------------------------------------------------
(* Properties of the retention pass *)

RetentionEnabled == Get(global_config.cleanup_old_files, TRUE)

\* the artifact files the pass found, the files it removed, and how many
\* files the retention count does not cover
Found == Glob(files_before)
Removed == files_before \ files
Excess ==
    LET n == Cardinality(Found)
        r == Get(global_config.retention_count, DefaultRetentionCount)
    IN  IF n > r THEN n - r ELSE 0

\* C10 as claimed: a retention pass over n artifact files with
\* retention_count = r removes exactly the max(0, n - r) files with the oldest
\* modification times and leaves the r most recently modified ones; nothing
\* is removed when n <= r
C10_RemovesExactlyOldest ==
    rpc = "cleaned" /\ RetentionEnabled =>
        /\ Cardinality(Removed) = Excess
        /\ Removed \subseteq Found
        /\ \A f \in Removed : \A g \in Found \ Removed : f.mtime <= g.mtime
        /\ Cardinality(Glob(files)) = Cardinality(Found) - Excess

\* C10 as amended: the pass tries to remove exactly the max(0, n - r) artifact
\* files with the oldest modification times and no other file; each of them
\* is removed unless its deletion fails, and then it stays; so exactly those
\* files go when no deletion fails, and nothing is removed when n <= r
C10_RemovesOldestUnlessDeletionFails ==
    rpc = "cleaned" /\ RetentionEnabled =>
        LET attempted == Range1(to_delete)
        IN  /\ Len(to_delete) = Excess
            /\ Cardinality(attempted) = Excess
            /\ attempted \subseteq Found
            /\ \A f \in attempted : \A g \in Found \ attempted : f.mtime <= g.mtime
            /\ remove_failed \subseteq attempted
            /\ Removed = attempted \ remove_failed
            /\ files = files_before \ (attempted \ remove_failed)
            /\ Excess = 0 => files = files_before

\* a pass over five artifact files with retention_count = 3 removed the two
\* oldest, and no deletion failed
C10_Witness ==
    /\ rpc = "cleaned"
    /\ RetentionEnabled
    /\ Cardinality(Found) = 5
    /\ global_config.retention_count = Key(3)
    /\ remove_failed = {}
    /\ Cardinality(Removed) = 2
    /\ Cardinality(Glob(files)) = 3

----------------------------------------------------------------------------
(* Properties of the threads of the cameras and of the coordinator *)

\* the entries of the history of camera c with the given operation
Entries(c, op) == {k \in 1 .. Len(log[c]) : log[c][k].op = op}

\* the stop flag of camera c was set before its loop admitted any event
StoppedBeforeFirst(c) ==
    \E k \in Entries(c, "stop") : log[c][k].event = 0

\* generate_video was never called for camera c and its counters are zero
NothingProduced(c) ==
    /\ Entries(c, "generate") = {}
    /\ stats[c] = [videos_created |-> 0, errors |-> 0]

\* C11: a camera whose stop flag is set before its loop has taken up any
\* event never calls generate_video, keeps both counters at zero, and its
\* run() returns, however long its schedule is
C11_StopBeforeFirstEvent ==
    /\ [](\A c \in Cams : StoppedBeforeFirst(c) => NothingProduced(c))
    /\ \A c \in CameraIds :
         (c \in Cams /\ StoppedBeforeFirst(c)) ~> (c \in Cams /\ run_pc[c] = "returned")

C11_Witness ==
    \E c \in Cams :
        /\ StoppedBeforeFirst(c)
        /\ cameras[c].source_video = "file"
        /\ Len(cam_events[c]) = MaxSchedule
        /\ run_pc[c] = "returned"

\* C12: run() of a camera whose source_video is missing or names no file
\* never enters its loop: no event is taken up, generate_video and
\* _cleanup_old_files are never called, no file appears or disappears under
\* its output folder, and both counters stay as they were
C12_MissingSourceDoesNothing ==
    \A c \in Cams :
        cameras[c].source_video # "file" =>
            /\ run_pc[c] \in {"unstarted", "run", "returned"}
            /\ Admitted(c) = 0
            /\ \A k \in 1 .. Len(log[c]) : log[c][k].op = "stop"
            /\ artifacts[c] = {}
            /\ stats[c] = [videos_created |-> 0, errors |-> 0]

C12_Witness ==
    \E c \in Cams :
        /\ cameras[c].source_video = "nofile"
        /\ Len(cam_events[c]) = MaxSchedule
        /\ ~stop_flag[c]
        /\ run_pc[c] = "returned"

\* the productions of camera c that have finished, with either outcome
Finished(c) == Entries(c, "success") \cup Entries(c, "failure")

Counted(c) == stats[c].videos_created + stats[c].errors

\* one step counts at most one production of camera c, in one counter
CountsOne(c) ==
    \/ stats'[c] = stats[c]
    \/ /\ Cardinality(Finished(c))' = Cardinality(Finished(c)) + 1
       /\ \/ stats'[c] = [stats[c] EXCEPT !.videos_created = @ + 1]
          \/ stats'[c] = [stats[c] EXCEPT !.errors = @ + 1]

RECURSIVE Work(_)
Work(entries) ==
    IF entries = <<>> THEN <<>>
    ELSE IF Head(entries).op = "stop" THEN Work(Tail(entries))
    ELSE <<Head(entries)>> \o Work(Tail(entries))

\* entries is what a loop leaves that takes up event i, then event i + 1 and
\* so on, and for each of them calls generate_video, waits for its outcome
\* and after a success runs the retention pass, before it takes up the next
RECURSIVE InOrderFrom(_, _)
InOrderFrom(entries, i) ==
    \/ entries = <<>>
    \/ /\ Head(entries) = Entry("generate", i)
       /\ \/ Len(entries) = 1
          \/ /\ entries[2] = Entry("failure", i)
             /\ InOrderFrom(SubSeq(entries, 3, Len(entries)), i + 1)
          \/ /\ entries[2] = Entry("success", i)
             /\ \/ Len(entries) = 2
                \/ /\ entries[3] = Entry("cleanup", i)
                   /\ InOrderFrom(SubSeq(entries, 4, Len(entries)), i + 1)

AllReturned == \A c \in Cams : run_pc[c] = "returned"

\* C15: the monitor loop of start() ends once run() of every camera has
\* returned, also when there is no camera or a camera gave up at its source
\* check; without a KeyboardInterrupt it does not end while a thread is
\* still running
C15_MonitorEndsWithThreads ==
    /\ []((sim_pc = "returned" /\ ~interrupted) => AllReturned)
    /\ (sim_pc \in {"monitor", "status"} /\ AllReturned) ~> (sim_pc = "returned")

C15_Witness ==
    /\ sim_pc = "returned"
    /\ ~interrupted
    /\ \E c \in Cams : ~SourceFound(c)
    /\ \E c \in Cams : Counted(c) = MaxSchedule

\* stop() was called and has returned
StopReturned == sim_pc = "returned" /\ interrupted

\* C16 as claimed: when stop() returns, the stop flag of every camera is set
\* and run() of every camera has returned
C16_StopWaitsForEveryThread ==
    StopReturned => /\ \A c \in Cams : stop_flag[c]
                    /\ AllReturned

\* C16 as amended: when stop() returns, the stop flag of every camera is set,
\* and run() of every camera has returned unless the join of its thread
\* timed out after its second
C16_StopWaitsOneSecondPerThread ==
    StopReturned => /\ \A c \in Cams : stop_flag[c]
                    /\ \A c \in Cams : run_pc[c] = "returned" \/ c \in timed_out

C16_Witness ==
    /\ StopReturned
    /\ \E c \in Cams : c \in timed_out /\ run_pc[c] = "generating"
    /\ \E c \in Cams : c \notin timed_out /\ Counted(c) > 0

\* what camera c did after its stop flag was set: the entries of its history
\* behind the setting of the flag
AfterStop(c) ==
    {j \in 1 .. Len(log[c]) :
        log[c][j].op # "stop" /\ \E k \in Entries(c, "stop") : k < j}

\* C17: whenever stop() sets the flag of a camera, whatever its thread is
\* doing, the thread afterwards works on no event but the one it had already
\* taken up (past the flag check, possibly still in its real-time wait), so
\* at most one more production finishes; and with productions that return the
\* thread then leaves its loop, the later events unproduced
C17_StopWithinOneEvent ==
    /\ [](\A c \in Cams :
            /\ \A j \in AfterStop(c) :
                  \A k \in Entries(c, "stop") : log[c][j].event = log[c][k].event
            /\ Cardinality(AfterStop(c) \cap Finished(c)) <= 1)
    /\ \A c \in CameraIds :
         (c \in Cams /\ stop_flag[c]) ~> (c \in Cams /\ run_pc[c] = "returned")

C17_Witness ==
    \E c \in Cams :
        /\ log[c] = <<Entry("stop", 1), Entry("generate", 1), Entry("success", 1),
                      Entry("cleanup", 1)>>
        /\ Len(cam_events[c]) = MaxSchedule
        /\ run_pc[c] = "returned"

\* a step of the thread of camera c leaves the schedule, the counters and
\* the stop flag of every other camera as they are
LeavesOthersAlone(c) ==
    run_pc'[c] # run_pc[c] =>
        \A d \in Cams \ {c} :
            /\ cam_events'[d] = cam_events[d]
            /\ stats'[d] = stats[d]
            /\ stop_flag'[d] = stop_flag[d]

\* the counters of camera c change only in the step of its own thread in
\* which a production finishes, never in a step of start() or stop()
OwnThreadCounts(c) ==
    stats'[c] # stats[c] =>
        /\ run_pc[c] = "generating" /\ run_pc'[c] # "generating"
        /\ sim_pc' = sim_pc

\* C18: whatever the interleaving, a camera that gives up at its source
\* check or whose productions fail changes neither the schedule, the
\* counters nor the stop flag of another camera; the counters of a camera
\* are written by its own thread only; and every camera with its source
\* still produces its whole schedule, unless its stop flag is set
C18_CamerasAreIndependent ==
    /\ [][\A c \in Cams : LeavesOthersAlone(c) /\ OwnThreadCounts(c)]_vars
    /\ \A d \in CameraIds :
         (d \in Cams /\ run_pc[d] = "run" /\ SourceFound(d))
             ~> (d \in Cams /\ run_pc[d] = "returned"
                   /\ (stop_flag[d] \/ Counted(d) = Len(cam_events[d])))

C18_Witness ==
    \E c, d \in Cams :
        /\ stats[c].errors > 0 /\ stats[c].videos_created = 0
        /\ ~stop_flag[d]
        /\ run_pc[d] = "returned"
        /\ stats[d] = [videos_created |-> Len(cam_events[d]), errors |-> 0]
        /\ Len(cam_events[d]) > 0

\* generate_schedule has run for camera c
Scheduled(c) == window_end[c].present

\* every schedule is there before the first thread is started, and the events
\* of camera c lie in the window that begins at the start_time of start()
ScheduledFirst(c) ==
    /\ run_pc[c] # "unstarted" => \A d \in Cams : Scheduled(d)
    /\ Scheduled(c) =>
          \A k \in 1 .. Len(cam_events[c]) :
              sim_start_time <= cam_events[c][k] /\ cam_events[c][k] < window_end[c].value

\* the window of a year that stands for an unbounded run
VeryLong == Days(UnboundedDays)

ConfiguredHours == sim_config.run_duration_hours

\* C19 as claimed: every schedule is generated from start_time on before a
\* thread is started; its window is run_duration_hours long when that is
\* positive, and very long when it is zero or absent from the configuration
C19_AbsentDurationIsUnbounded ==
    \A c \in Cams :
        /\ ScheduledFirst(c)
        /\ Scheduled(c) =>
              window_end[c].value =
                  IF ConfiguredHours.present /\ ConfiguredHours.value > 0
                  THEN sim_start_time + ConfiguredHours.value
                  ELSE sim_start_time + VeryLong

\* C19 as amended: every schedule is generated from start_time on before a
\* thread is started; its window is run_duration_hours long when that is
\* positive, very long when it is zero, and 24 hours long when it is absent
\* from the configuration
C19_AbsentDurationIsOneDay ==
    \A c \in Cams :
        /\ ScheduledFirst(c)
        /\ Scheduled(c) =>
              window_end[c].value =
                  IF ~ConfiguredHours.present
                  THEN sim_start_time + DefaultRunDurationHours
                  ELSE IF ConfiguredHours.value > 0
                  THEN sim_start_time + ConfiguredHours.value
                  ELSE sim_start_time + VeryLong

C19_Witness ==
    /\ ~ConfiguredHours.present
    /\ Cams # {}
    /\ \A c \in Cams :
          /\ run_pc[c] # "unstarted"
          /\ Len(cam_events[c]) = MaxSchedule
          /\ window_end[c] = Key(sim_start_time + DefaultRunDurationHours)

----------------------------------------------------------------------------
(* Termination of the generator loops *)

\* a pass of the loop of _generate_continuous that stays in the loop moves
\* the cursor of that loop forward
ContinuousAdvances ==
    (pc = "continuous" /\ pc' = "continuous" /\ cont' # cont) =>
        cont'.current_time > cont.current_time

\* the same for the loops of _generate_motion and _generate_event
IdleThenRecordAdvances ==
    (pc \in {"motion", "event"} /\ pc' = pc) => current_time' > current_time

\* C20: for every pattern kind, every finite window and every parameter set
\* with min <= max, each pass of a generator loop moves its cursor strictly
\* forward, until the cursor reaches end_time or the truncated rest is
\* dropped, so that the generation ends
C20_CursorAdvances == [][ContinuousAdvances /\ IdleThenRecordAdvances]_vars

----------------------------------------------------------------------------
(* The idle gaps of the motion-triggered and event-triggered schedules *)

\* the idle range the pattern kind reads, with the kind's default
ConfiguredIdleRange ==
    ConfigGet(config.idle_duration_range,
              IF pattern_type = "event_triggered" THEN DefaultEventIdle
              ELSE DefaultMotionIdle)

\* the shortest idle gap, at the resolution of datetime
IdleMin == TimeDelta(ConfiguredIdleRange.lo)

\* the two loop bodies give the same result for the ranges of the call
SameAlgorithm ==
    (ConfiguredIdleRange.kind = "range" /\ ConfiguredVideoRange.kind = "range") =>
        \A idle \in Uniform(ConfiguredIdleRange) :
            \A d \in Uniform(ConfiguredVideoRange) :
                MotionBody(current_time, events, idle, d) = EventBody(current_time, events, idle, d)

\* C21: in a motion-triggered or event-triggered schedule the first event
\* starts at least idle_min after start_time, every later event starts at
\* least idle_min after the recording before it ended, no event starts at or
\* after end_time, and the two kinds run the same loop body, differing only
\* in their default ranges
C21_IdleGapFirst ==
    pattern_type \in {"motion_triggered", "event_triggered"} =>
        /\ \A i \in 1 .. Len(Emitted) :
              /\ Emitted[i].start_time < end_time
              /\ i = 1 => Emitted[i].start_time >= start_time + IdleMin
              /\ i > 1 => Emitted[i].start_time >= EndOf(Emitted[i - 1]) + IdleMin
        /\ pc \in {"motion", "event"} => SameAlgorithm

C21_Witness ==
    /\ pattern_type = "event_triggered"
    /\ pc = "done"
    /\ config.idle_duration_range.kind = "range"
    /\ IdleMin > 0
    /\ Len(result) >= 2
    /\ result[2].start_time = EndOf(result[1]) + IdleMin

----------------------------------------------------------------------------
(* Real-time pacing *)

\* the start time of the event the loop of camera c is at
EventStart(c) == cam_events[c][run_i[c]]

\* the step calls generate_video for camera c
BeginsProduction(c) == run_pc[c] # "generating" /\ run_pc'[c] = "generating"

\* C22: a camera with use_real_time calls generate_video for an event only
\* when the clock has reached the start time of the event, and does not wait
\* for an event whose start time has come; a camera without use_real_time
\* never waits
C22_PacedByTheClock ==
    [][\A c \in Cams :
          /\ (BeginsProduction(c) /\ cameras[c].use_real_time) => clock >= EventStart(c)
          /\ (run_pc[c] = "loop" /\ run_pc'[c] = "sleeping") =>
                 cameras[c].use_real_time /\ clock < EventStart(c)
          /\ (run_pc[c] = "loop" /\ BeginsProduction(c)) =>
                 ~cameras[c].use_real_time \/ clock >= EventStart(c)]_vars

C22_Witness ==
    \E c \in Cams :
        /\ cameras[c].use_real_time
        /\ log[c] = <<Entry("generate", 1), Entry("success", 1), Entry("cleanup", 1),
                      Entry("generate", 2)>>
        /\ clock = EventStart(c)
        /\ sim_start_time > 1

----------------------------------------------------------------------------
(* Retention in the camera loop *)

\* the step is the retention pass of camera c
RetentionPass(c) == run_pc[c] = "cleanup" /\ run_pc'[c] = "loop"

PassEnabled == Get(sim_config.cleanup_old_files, TRUE)

PassRetention == Get(sim_config.retention_count, DefaultRetentionCount)

\* every removal of the pass went through: the output folder itself holds no
\* more videos than the retention count
RemovalsWentThrough(c) == Cardinality(Glob(artifacts'[c])) <= PassRetention

\* C23: with retention enabled, after the retention pass that follows a
\* successful event (and in which no removal was refused) a camera holds at
\* most retention_count files under its output folder, the folders below it
\* included; with retention disabled the pass deletes nothing
C23_RetentionBoundsTheFolder ==
    [][\A c \in Cams :
          RetentionPass(c) =>
              IF PassEnabled
              THEN RemovalsWentThrough(c) =>
                       Cardinality(artifacts'[c]) <= PassRetention
              ELSE artifacts'[c] = artifacts[c]]_vars

\* C24: with a retention count of one or more, the retention pass that follows
\* a successful production leaves the file just produced in place, also when
\* the output folder already holds videos with a later modification time
C24_KeepsTheNewFile ==
    [][\A c \in Cams :
          (RetentionPass(c) /\ PassRetention >= 1) => Written(c) \in artifacts'[c]]_vars

----------------------------------------------------------------------------
(* The stop flag over several starts *)

\* stop() was called on camera c and start() was called after that
RestartedAfterStop(c) ==
    \E k \in Entries(c, "stop") : \E j \in Entries(c, "start") : k < j

\* the entries of the history of camera c that follow the first call of
\* start() after a stop()
AfterRestart(c) ==
    LET first == CHOOSE j \in Entries(c, "start") :
                     /\ \E k \in Entries(c, "stop") : k < j
                     /\ \A i \in Entries(c, "start") :
                            (\E k \in Entries(c, "stop") : k < i) => j <= i
    IN  SubSeq(log[c], first + 1, Len(log[c]))

\* only stop() sets the flag of a camera and no step clears it
FlagIsMonotonic ==
    \A c \in Cams :
        /\ stop_flag[c] => stop_flag'[c]
        /\ (~stop_flag[c] /\ stop_flag'[c]) => sim_pc = "stop"

\* only generate_schedule writes the schedule of a camera
ScheduleIsKept ==
    \A c \in Cams : cam_events'[c] # cam_events[c] => sim_pc = "schedules"

\* C25: the stop flag of a camera is false until stop() sets it and no step
\* clears it, a run() of a camera that begins after the camera was stopped
\* calls generate_video for no event, and no step of run() changes the
\* schedule
C25_StopFlagIsMonotonic ==
    /\ [](\A c \in Cams :
            /\ Entries(c, "stop") = {} => ~stop_flag[c]
            /\ RestartedAfterStop(c) =>
                   /\ stop_flag[c]
                   /\ \A k \in 1 .. Len(AfterRestart(c)) :
                          AfterRestart(c)[k].op \in {"stop", "start"})
    /\ [][FlagIsMonotonic /\ ScheduleIsKept]_vars

\* a camera with a source and a schedule was stopped, started again, and its
\* second run() has returned
C25_Witness ==
    \E c \in Cams :
        /\ RestartedAfterStop(c)
        /\ SourceFound(c)
        /\ cam_events[c] # <<>>
        /\ Len(threads) = 2 * Len(cameras)
        /\ run_pc[c] = "returned"
        /\ Entries(c, "generate") # {}

====
